---- MODULE Spec2Model ----
(***************************************************************************)
(* One render pass of app/app.py (NYC Yellow Taxi dashboard).              *)
(*                                                                         *)
(* The script runs top to bottom once per user interaction: it loads the   *)
(* trip table from the first usable sub-path, derives the date, hour and   *)
(* day-of-week columns, reads the zone GeoJSON, takes the date range and   *)
(* hour range from the widgets, filters once, and renders the KPIs, the    *)
(* daily series, the heatmap, the zone ranking and the map from the        *)
(* filtered frame.  st.stop() ends the pass ("halted"); an exception that  *)
(* nothing catches ends it too ("raised").                                 *)
(*                                                                         *)
(* A timestamp is a pair (day, hour): day is the day of 2025 counted from  *)
(* 0 = 2025-01-01, NaT is the unparsable timestamp.  Averages are kept as  *)
(* exact fractions <<numerator, denominator>>.  Parquet row order is not   *)
(* read by any operation modelled here (masks, sums, group-by counts), so  *)
(* tables are enumerated up to row order.                                  *)
(***************************************************************************)
EXTENDS Integers, Sequences, FiniteSets, TLC

VARIABLES
    pc,          \* position of the script
    outcome,     \* "running" | "halted" (st.stop) | "raised" (uncaught) | "done"
    sub,         \* index into RAW_SUBPATHS of the next candidate (loop variable)
    tried,       \* the reads made by load_base_with_timestamp, in order
    last_err,    \* load_base_with_timestamp's last_err
    loadedFrom,  \* index of the sub-path whose table was returned, 0 if none
    cols,        \* the columns of the loaded table
    base,        \* the base frame
    taxi_gj,     \* the GeoJSON features, each its LocationID (0: none)
    dr,          \* what st.date_input returned
    hr,          \* what st.select_slider returned: <<hr_min, hr_max>>
    df_filtered, \* base.loc[mask]
    kpi,         \* the KPI values
    daily,       \* the daily series: date -> trips
    heat,        \* the heatmap: <<dow, hour>> -> trips
    by_zone,     \* the zone table after the merge with the lookup
    emitted,     \* the elements shown so far, in order
    dowIn,       \* day-of-week study: the timestamp's day
    dowOut       \* day-of-week study: the derived row, or NoRow

vars == <<pc, outcome, sub, tried, last_err, loadedFrom, cols, base, taxi_gj,
          dr, hr, df_filtered, kpi, daily, heat, by_zone, emitted, dowIn, dowOut>>

(***************************************************************************)
(* Bounds of the model.                                                    *)
(***************************************************************************)
MaxRows == 2        \* rows of a source table
DowMaxDay == 211    \* the day-of-week study covers days 0 .. DowMaxDay of 2025

(***************************************************************************)
(* Program constants.                                                      *)
(***************************************************************************)
FirstDay == 151     \* 2025-06-01, first day of the dashboard's period
RAW_SUBPATHS == <<"yellow_trips_2025/", "trips/", "">>
TsCandidates == <<"tpep_pickup_datetime", "lpep_pickup_datetime", "pickup_ts">>
HourOptions == 0..23
OptionalCols == {"total_amount", "fare_amount", "tip_amount", "trip_distance",
                 "pulocationid"}

NaT == -1
NoRow == [none |-> TRUE]
NoKpi == [none |-> TRUE]
Empty == [x \in {} |-> 0]

(***************************************************************************)
(* Inputs: what the storage, the GeoJSON source and the widgets can hand   *)
(* to the script.                                                          *)
(***************************************************************************)
\* pickups fall on the first three days of the period, at three hours of the day
DaySample == {FirstDay, FirstDay + 1, FirstDay + 2}
HourSample == {0, 12, 23}
\* zone, fare, tip, total and distance of a trip; a refund has a negative fare
Payloads ==
    { [pulocationid |-> 1, fare_amount |-> 2, tip_amount |-> 1,
       total_amount |-> 3, trip_distance |-> 1],
      [pulocationid |-> 2, fare_amount |-> -3, tip_amount |-> 0,
       total_amount |-> -3, trip_distance |-> 0] }

RawRow(d, h, p) ==
    [day |-> d, hour |-> h, pulocationid |-> p.pulocationid,
     fare_amount |-> p.fare_amount, tip_amount |-> p.tip_amount,
     total_amount |-> p.total_amount, trip_distance |-> p.trip_distance]

RawRows ==
    { RawRow(d, h, p) : d \in DaySample, h \in HourSample, p \in Payloads }
        \cup { RawRow(NaT, 0, p) : p \in {q \in Payloads : q.fare_amount > 0} }

\* one representative per multiset of rows: rows in ascending rank
Rank(r) == (r.day * 24 + r.hour) * 16 + (r.fare_amount + 8)

Tables ==
    { t \in UNION { [1..n -> RawRows] : n \in 0..MaxRows } :
        \A i \in 1..(Len(t) - 1) : Rank(t[i]) <= Rank(t[i + 1]) }

\* "Nem todos os Parquets tem todas as colunas": tables that lack columns
\* (cols says which columns a frame has; a row's value for a column the frame
\* lacks is never read)
PartialSchemas ==
    { OptionalCols \ {"total_amount"}, OptionalCols \ {"pulocationid"},
      {"pulocationid"} }

TsColumnSets ==
    { {}, {"pickup_datetime"}, {"tpep_pickup_datetime"}, {"pickup_ts"} }

\* what read_parquet_dir does on one path: an exception, or a frame.  Frames
\* with every column come in all sizes up to MaxRows, frames of a partial
\* schema with at most one row.
ReadResults ==
    { [kind |-> "io"] } \cup
    { [kind |-> "frame", ts |-> c, cols |-> OptionalCols, rows |-> t] :
        c \in TsColumnSets, t \in Tables } \cup
    { [kind |-> "frame", ts |-> c, cols |-> s, rows |-> t] :
        c \in TsColumnSets, s \in PartialSchemas,
        t \in { u \in Tables : Len(u) <= 1 } }

\* what load_taxi_geojson does: an exception, or the features.  The feature
\* list has one feature without LocationID and two features of zone 2.
GeoResults ==
    { [kind |-> "unavailable"],
      [kind |-> "geojson", features |-> <<1, 0, 2, 2>>] }

(***************************************************************************)
(* load_base_with_timestamp                                                *)
(***************************************************************************)
\* StandardiseTs with a candidate list that stops at tpep_pickup_datetime
StandardiseTsTpepOnly(ts) ==
    IF "pickup_datetime" \in ts THEN ts
    ELSE IF "tpep_pickup_datetime" \in ts
         THEN (ts \ {"tpep_pickup_datetime"}) \cup {"pickup_datetime"}
         ELSE ts

\* lines 68-72: the first candidate column present is renamed to pickup_datetime
StandardiseTs(ts) ==
    IF "pickup_datetime" \in ts THEN ts
    ELSE IF \E i \in 1..Len(TsCandidates) : TsCandidates[i] \in ts
         THEN LET i == CHOOSE k \in 1..Len(TsCandidates) :
                          /\ TsCandidates[k] \in ts
                          /\ \A j \in 1..(k - 1) : TsCandidates[j] \notin ts
              IN (ts \ {TsCandidates[i]}) \cup {"pickup_datetime"}
         ELSE ts

\* line 63: the loop moves to the next entry of RAW_SUBPATHS
NextCandidate(i) == i + 1

\* lines 63-78: one turn of the loop over RAW_SUBPATHS
ReadSubpath ==
    /\ pc = "load" /\ outcome = "running"
    /\ sub <= Len(RAW_SUBPATHS)
    /\ \E res \in ReadResults :
         IF res.kind = "io"
         THEN /\ tried' = Append(tried, [path |-> RAW_SUBPATHS[sub], ts |-> {},
                                         result |-> "io"])
              /\ last_err' = "io"
              /\ sub' = NextCandidate(sub)
              /\ UNCHANGED <<pc, loadedFrom, cols, base>>
         ELSE IF "pickup_datetime" \notin StandardiseTs(res.ts)
         THEN /\ tried' = Append(tried, [path |-> RAW_SUBPATHS[sub], ts |-> res.ts,
                                         result |-> "no_timestamp"])
              /\ last_err' = "no_timestamp"
              /\ sub' = NextCandidate(sub)
              /\ UNCHANGED <<pc, loadedFrom, cols, base>>
         ELSE /\ tried' = Append(tried, [path |-> RAW_SUBPATHS[sub], ts |-> res.ts,
                                         result |-> "ok"])
              /\ loadedFrom' = sub
              /\ cols' = res.cols \cup StandardiseTs(res.ts)
              /\ base' = res.rows
              /\ pc' = "loaded"
              /\ UNCHANGED <<sub, last_err>>
    /\ UNCHANGED <<outcome, taxi_gj, dr, hr, df_filtered, kpi, daily, heat,
                   by_zone, emitted, dowIn, dowOut>>

\* LoadExhausted with the except block's st.stop() left out: the script goes
\* on to guard_df(base) with base unbound, a NameError
LoadExhaustedNoStop ==
    /\ pc = "load" /\ outcome = "running"
    /\ sub > Len(RAW_SUBPATHS)
    /\ emitted' = emitted \o <<"error", "info">>
    /\ outcome' = "raised"
    /\ UNCHANGED <<pc, sub, tried, last_err, loadedFrom, cols, base, taxi_gj, dr,
                   hr, df_filtered, kpi, daily, heat, by_zone, dowIn, dowOut>>

\* line 80 and lines 105-113: every candidate failed; RuntimeError, caught at
\* the call, shown with st.error and st.info, then st.stop()
LoadExhausted ==
    /\ pc = "load" /\ outcome = "running"
    /\ sub > Len(RAW_SUBPATHS)
    /\ emitted' = emitted \o <<"error", "info">>
    /\ outcome' = "halted"
    /\ UNCHANGED <<pc, sub, tried, last_err, loadedFrom, cols, base, taxi_gj, dr,
                   hr, df_filtered, kpi, daily, heat, by_zone, dowIn, dowOut>>

(***************************************************************************)
(* Derived columns (lines 118-123)                                         *)
(***************************************************************************)
MonthDays == <<31, 28, 31, 30, 31, 30, 31, 31, 30, 31, 30, 31>>

RECURSIVE MonthOf(_, _)
\* the month and day of month of day n of the year, counting months from m
MonthOf(n, m) ==
    IF n < MonthDays[m] THEN [month |-> m, dom |-> n + 1]
    ELSE MonthOf(n - MonthDays[m], m + 1)

\* the calendar date of a timestamp: .dt.date
CalendarDate(day) ==
    LET md == MonthOf(day, 1) IN [year |-> 2025, month |-> md.month, dom |-> md.dom]

SakamotoArr == <<0, 3, 2, 5, 0, 3, 5, 1, 4, 6, 2, 4>>

\* .dt.dayofweek: pandas' day of week of a date, Monday = 0 .. Sunday = 6
DayOfWeek(day) ==
    LET c == CalendarDate(day)
        y == IF c.month < 3 THEN c.year - 1 ELSE c.year
        w == (y + (y \div 4) - (y \div 100) + (y \div 400)
                + SakamotoArr[c.month] + c.dom) % 7
    IN (w + 6) % 7

\* PickupDowNum without the + 1: Monday = 0 .. Sunday = 6
PickupDowNumZeroBased(day) == DayOfWeek(day)

\* line 123
PickupDowNum(day) == DayOfWeek(day) + 1

\* lines 120-123 for one row
WithDerived(r) ==
    [pickup_date |-> r.day, pickup_hour |-> r.hour,
     pickup_dow_num |-> PickupDowNum(r.day),
     pulocationid |-> r.pulocationid, fare_amount |-> r.fare_amount,
     tip_amount |-> r.tip_amount, total_amount |-> r.total_amount,
     trip_distance |-> r.trip_distance]

\* lines 118-123: unparsable timestamps are dropped, the rest get the columns
Prepare(rows) ==
    LET kept == SelectSeq(rows, LAMBDA r : r.day # NaT)
    IN [i \in 1..Len(kept) |-> WithDerived(kept[i])]

\* guard_df that tests only "df is None"
GuardStopsOnNoneOnly(df) == FALSE

\* lines 97-100
GuardStops(df) == Len(df) = 0

\* lines 115-123: guard_df on the loaded table, then the derived columns; the
\* frame of load_base_with_timestamp is gone
GuardAndPrepare ==
    /\ pc = "loaded" /\ outcome = "running"
    /\ IF GuardStops(base)
       THEN /\ emitted' = Append(emitted, "error")
            /\ outcome' = "halted"
            /\ UNCHANGED <<pc, base, tried, sub, last_err>>
       ELSE /\ base' = Prepare(base)
            /\ pc' = "geojson"
            /\ tried' = <<>>
            /\ sub' = 1
            /\ last_err' = "none"
            /\ UNCHANGED <<emitted, outcome>>
    /\ UNCHANGED <<loadedFrom, cols, taxi_gj, dr, hr, df_filtered, kpi, daily,
                   heat, by_zone, dowIn, dowOut>>

(***************************************************************************)
(* GeoJSON and widgets                                                     *)
(***************************************************************************)
\* lines 82-95: the features that carry a LocationID
build_zone_lookup_from_geojson(features) ==
    SelectSeq(features, LAMBDA f : f # 0)

\* lines 126-127: load_taxi_geojson raises when no local file is usable and the
\* download fails
LoadGeo ==
    /\ pc = "geojson" /\ outcome = "running"
    /\ \E g \in GeoResults :
         IF g.kind = "unavailable"
         THEN /\ outcome' = "raised"
              /\ UNCHANGED <<pc, taxi_gj>>
         ELSE /\ taxi_gj' = g.features
              /\ pc' = "widgets"
              /\ UNCHANGED outcome
    /\ UNCHANGED <<sub, tried, last_err, loadedFrom, cols, base, dr, hr,
                   df_filtered, kpi, daily, heat, by_zone, emitted, dowIn, dowOut>>

SeqRange(s) == { s[i] : i \in 1..Len(s) }
SetMin(S) == CHOOSE x \in S : \A y \in S : x <= y
SetMax(S) == CHOOSE x \in S : \A y \in S : x >= y

\* what st.date_input can return between min_d and max_d: a range, or its start
\* alone while the user is still choosing
DateChoices(min_d, max_d) ==
    { <<a, b>> \in (min_d..max_d) \X (min_d..max_d) : a <= b }
        \cup { <<a>> : a \in {min_d} }

\* what st.select_slider can return over options 0..23
HourChoices ==
    { <<a, b>> \in HourSample \X HourSample : a <= b /\ {a, b} \subseteq HourOptions }

\* lines 130-139: title, caption and the two filter widgets
Widgets ==
    /\ pc = "widgets" /\ outcome = "running"
    /\ IF Len(base) = 0
       THEN \* min() of an empty column is NaN, which st.date_input refuses
            /\ outcome' = "raised"
            /\ UNCHANGED <<pc, dr, hr, emitted>>
       ELSE LET dates == { base[i].pickup_date : i \in 1..Len(base) }
                min_d == SetMin(dates)
                max_d == SetMax(dates)
            IN /\ \E d \in DateChoices(min_d, max_d), h \in HourChoices :
                    /\ dr' = d
                    /\ hr' = h
               /\ emitted' = emitted \o <<"title", "filters">>
               /\ pc' = "filter"
               /\ UNCHANGED outcome
    /\ UNCHANGED <<sub, tried, last_err, loadedFrom, cols, base, taxi_gj,
                   df_filtered, kpi, daily, heat, by_zone, dowIn, dowOut>>

(***************************************************************************)
(* The global filter (lines 141-150)                                       *)
(***************************************************************************)
\* Mask without the upper date bound
MaskNoUpperDate(r, d0, d1, hr_min, hr_max) ==
    /\ r.pickup_date >= d0
    /\ r.pickup_hour >= hr_min
    /\ r.pickup_hour <= hr_max

\* Mask with an exclusive upper hour bound
MaskHourExclusive(r, d0, d1, hr_min, hr_max) ==
    /\ r.pickup_date >= d0
    /\ r.pickup_date <= d1
    /\ r.pickup_hour >= hr_min
    /\ r.pickup_hour < hr_max

\* Mask without the lower date bound
MaskNoLowerDate(r, d0, d1, hr_min, hr_max) ==
    /\ r.pickup_date <= d1
    /\ r.pickup_hour >= hr_min
    /\ r.pickup_hour <= hr_max

\* lines 143-148
Mask(r, d0, d1, hr_min, hr_max) ==
    /\ r.pickup_date >= d0
    /\ r.pickup_date <= d1
    /\ r.pickup_hour >= hr_min
    /\ r.pickup_hour <= hr_max

\* line 149
FilterRows(rows, d0, d1, hr_min, hr_max) ==
    SelectSeq(rows, LAMBDA r : Mask(r, d0, d1, hr_min, hr_max))

\* lines 141-150: dr[1] of a one-date selection raises IndexError
ApplyFilter ==
    /\ pc = "filter" /\ outcome = "running"
    /\ IF Len(dr) < 2
       THEN /\ outcome' = "raised"
            /\ UNCHANGED <<pc, df_filtered, emitted>>
       ELSE LET f == FilterRows(base, dr[1], dr[2], hr[1], hr[2])
            IN /\ df_filtered' = f
               /\ IF GuardStops(f)
                  THEN /\ emitted' = Append(emitted, "error")
                       /\ outcome' = "halted"
                       /\ UNCHANGED pc
                  ELSE /\ pc' = "kpis"
                       /\ UNCHANGED <<emitted, outcome>>
    /\ UNCHANGED <<sub, tried, last_err, loadedFrom, cols, base, taxi_gj, dr, hr,
                   kpi, daily, heat, by_zone, dowIn, dowOut>>

(***************************************************************************)
(* KPIs (lines 152-169)                                                    *)
(***************************************************************************)
RECURSIVE SumSeq(_)
SumSeq(s) == IF s = <<>> THEN 0 ELSE Head(s) + SumSeq(Tail(s))

\* df[col].sum() if col in df.columns else 0.0
ColSum(rows, columns, col) ==
    IF col \in columns THEN SumSeq([i \in 1..Len(rows) |-> rows[i][col]]) ELSE 0

ZeroDivisionError == [error |-> "ZeroDivisionError"]
Zero == <<0, 1>>
\* n / d in Python
Divide(n, d) == IF d = 0 THEN ZeroDivisionError ELSE <<n, d>>

\* line 160
AvgFare(fare_sum, trips_total) ==
    IF trips_total # 0 /\ fare_sum # 0 THEN Divide(fare_sum, trips_total) ELSE Zero
\* line 161
AvgTipPct(tip_sum, fare_sum) ==
    IF fare_sum # 0 THEN Divide(tip_sum, fare_sum) ELSE Zero
\* line 162
AvgMiles(dist_sum, trips_total) ==
    IF trips_total # 0 /\ dist_sum # 0 THEN Divide(dist_sum, trips_total) ELSE Zero

\* lines 154-162
Kpis(rows, columns) ==
    LET trips_total == Len(rows)
        fare_sum == ColSum(rows, columns, "fare_amount")
        tip_sum == ColSum(rows, columns, "tip_amount")
        dist_sum == ColSum(rows, columns, "trip_distance")
    IN [trips_total |-> trips_total,
        revenue_total |-> ColSum(rows, columns, "total_amount"),
        fare_sum |-> fare_sum, tip_sum |-> tip_sum, dist_sum |-> dist_sum,
        avg_fare |-> AvgFare(fare_sum, trips_total),
        avg_tip_pct |-> AvgTipPct(tip_sum, fare_sum),
        avg_miles |-> AvgMiles(dist_sum, trips_total)]

\* lines 152-169
RenderKpis ==
    /\ pc = "kpis" /\ outcome = "running"
    /\ LET k == Kpis(df_filtered, cols)
       IN IF ZeroDivisionError \in {k.avg_fare, k.avg_tip_pct, k.avg_miles}
          THEN /\ outcome' = "raised"
               /\ UNCHANGED <<pc, kpi, emitted>>
          ELSE /\ kpi' = k
               /\ emitted' = Append(emitted, "kpis")
               /\ pc' = "charts"
               /\ UNCHANGED outcome
    /\ UNCHANGED <<sub, tried, last_err, loadedFrom, cols, base, taxi_gj, dr, hr,
                   df_filtered, daily, heat, by_zone, dowIn, dowOut>>

(***************************************************************************)
(* Charts (lines 171-193)                                                  *)
(***************************************************************************)
\* lines 173-177: trips per pickup_date
Daily(rows) ==
    [d \in { rows[i].pickup_date : i \in 1..Len(rows) } |->
        Len(SelectSeq(rows, LAMBDA r : r.pickup_date = d))]

\* lines 184-189: trips per (pickup_dow_num, pickup_hour), pivoted, gaps as 0
Heat(rows) ==
    [c \in { rows[i].pickup_dow_num : i \in 1..Len(rows) }
             \X { rows[i].pickup_hour : i \in 1..Len(rows) } |->
        Len(SelectSeq(rows, LAMBDA r : r.pickup_dow_num = c[1]
                                        /\ r.pickup_hour = c[2]))]

\* lines 171-193
RenderCharts ==
    /\ pc = "charts" /\ outcome = "running"
    /\ daily' = Daily(df_filtered)
    /\ heat' = Heat(df_filtered)
    /\ emitted' = emitted \o <<"line", "heatmap">>
    /\ pc' = "zones"
    /\ UNCHANGED <<outcome, sub, tried, last_err, loadedFrom, cols, base, taxi_gj,
                   dr, hr, df_filtered, kpi, by_zone, dowIn, dowOut>>

(***************************************************************************)
(* Zone ranking and map (lines 195-228)                                    *)
(***************************************************************************)
RECURSIVE SortedSeq(_)
SortedSeq(S) ==
    IF S = {} THEN <<>> ELSE LET m == SetMin(S) IN <<m>> \o SortedSeq(S \ {m})

\* lines 196-200: one row per pulocationid, in key order
GroupByZone(rows, columns) ==
    LET keys == SortedSeq({ rows[i].pulocationid : i \in 1..Len(rows) })
    IN [k \in 1..Len(keys) |->
          LET mine == SelectSeq(rows, LAMBDA r : r.pulocationid = keys[k])
          IN [pulocationid |-> keys[k],
              trips |-> Len(mine),
              revenue_total |-> IF "total_amount" \in columns
                                THEN ColSum(mine, columns, "total_amount")
                                ELSE Len(mine)]]

RECURSIVE MergeLeft(_, _)
\* line 201: left merge on pulocationid; a left row appears once per lookup row
\* with its key, once with empty names when there is none
MergeLeft(left, lkp) ==
    IF left = <<>> THEN <<>>
    ELSE LET row == Head(left)
             hits == SelectSeq(lkp, LAMBDA z : z = row.pulocationid)
             n == IF Len(hits) = 0 THEN 1 ELSE Len(hits)
         IN [i \in 1..n |-> [pulocationid |-> row.pulocationid,
                             trips |-> row.trips,
                             revenue_total |-> row.revenue_total,
                             named |-> Len(hits) > 0]]
            \o MergeLeft(Tail(left), lkp)

\* lines 196-201
ByZone(rows, columns, features) ==
    MergeLeft(GroupByZone(rows, columns), build_zone_lookup_from_geojson(features))

\* lines 195-228: groupby("pulocationid") raises KeyError without the column
RenderZones ==
    /\ pc = "zones" /\ outcome = "running"
    /\ IF "pulocationid" \notin cols
       THEN /\ outcome' = "raised"
            /\ UNCHANGED <<by_zone, emitted>>
       ELSE /\ by_zone' = ByZone(df_filtered, cols, taxi_gj)
            /\ emitted' = emitted \o <<"ranking", "map", "caption">>
            /\ outcome' = "done"
    /\ UNCHANGED <<pc, sub, tried, last_err, loadedFrom, cols, base, taxi_gj, dr,
                   hr, df_filtered, kpi, daily, heat, dowIn, dowOut>>

(***************************************************************************)
(* The day-of-week derivation on its own: lines 118-123 and 184-189 on a   *)
(* one-row frame, for every day of the study period.                       *)
(***************************************************************************)
DeriveDow ==
    /\ pc = "dow" /\ dowOut = NoRow
    /\ \E h \in HourSample, p \in Payloads :
         LET frame == Prepare(<<RawRow(dowIn, h, p)>>)
         IN /\ dowOut' = frame[1]
            /\ heat' = Heat(frame)
    /\ UNCHANGED <<pc, outcome, sub, tried, last_err, loadedFrom, cols, base,
                   taxi_gj, dr, hr, df_filtered, kpi, daily, by_zone, emitted, dowIn>>

(***************************************************************************)
(* Specifications                                                          *)
(***************************************************************************)
Start ==
    /\ outcome = "running"
    /\ sub = 1
    /\ tried = <<>>
    /\ last_err = "none"
    /\ loadedFrom = 0
    /\ cols = {}
    /\ base = <<>>
    /\ taxi_gj = <<>>
    /\ dr = <<>>
    /\ hr = <<0, 23>>
    /\ df_filtered = <<>>
    /\ kpi = NoKpi
    /\ daily = Empty
    /\ heat = Empty
    /\ by_zone = <<>>
    /\ emitted = <<>>
    /\ dowOut = NoRow

Init ==
    /\ Start
    /\ pc = "load"
    /\ dowIn = 0

Next ==
    \/ ReadSubpath
    \/ LoadExhausted
    \/ GuardAndPrepare
    \/ LoadGeo
    \/ Widgets
    \/ ApplyFilter
    \/ RenderKpis
    \/ RenderCharts
    \/ RenderZones

Spec == Init /\ [][Next]_vars

InitDow ==
    /\ Start
    /\ pc = "dow"
    /\ dowIn \in 0..DowMaxDay

NextDow == DeriveDow

SpecDow == InitDow /\ [][NextDow]_vars

(***************************************************************************)
(* Reference definitions used by the properties                            *)
(***************************************************************************)
\* the filtered frame has been assigned (line 149)
FilterApplied ==
    \/ pc \in {"kpis", "charts", "zones"}
    \/ pc = "filter" /\ outcome = "halted"

Occurrences(rows, r) == Len(SelectSeq(rows, LAMBDA x : x = r))

InDateRange(r) == dr[1] <= r.pickup_date /\ r.pickup_date <= dr[2]
InHourRange(r) == hr[1] <= r.pickup_hour /\ r.pickup_hour <= hr[2]

\* the base rows of the selected dates, whatever their hour
DateRestricted == SelectSeq(base, InDateRange)

\* trips of a day of week among the selected rows, and among the rows of the
\* selected dates
SelectedOfDow(dow) == Len(SelectSeq(df_filtered, LAMBDA r : r.pickup_dow_num = dow))
TotalOfDow(dow) == Len(SelectSeq(DateRestricted, LAMBDA r : r.pickup_dow_num = dow))
AllOfDow(dow) == Len(SelectSeq(base, LAMBDA r : r.pickup_dow_num = dow))
RatioOfDow(dow) ==
    IF TotalOfDow(dow) > 0 THEN <<SelectedOfDow(dow), TotalOfDow(dow)>> ELSE Zero

\* fractions with a non-zero denominator
FracEq(a, b) == a[1] * b[2] = b[1] * a[2]
FracIn01(a) ==
    IF a[2] > 0 THEN 0 <= a[1] /\ a[1] <= a[2] ELSE 0 >= a[1] /\ a[1] >= a[2]

RECURSIVE SumFun(_)
SumFun(f) ==
    IF DOMAIN f = {} THEN 0
    ELSE LET x == CHOOSE y \in DOMAIN f : TRUE
         IN f[x] + SumFun([z \in DOMAIN f \ {x} |-> f[z]])

\* ISO 8601 day of week of day n of 2025 (2025-01-01 is a Wednesday)
IsoDow(n) == ((n + 2) % 7) + 1

RenderOutputs == {"kpis", "line", "heatmap", "ranking", "map"}
Shown == { emitted[i] : i \in 1..Len(emitted) }

(***************************************************************************)
(* Properties                                                              *)
(***************************************************************************)

\* C1: once the filter has run, a base row occurs in df_filtered exactly as
\* often as in base when its pickup date lies in [d0, d1] and its pickup hour
\* in [hr_min, hr_max], and does not occur at all otherwise: rows outside the
\* ranges are dropped, rows inside are all kept.
C1_FilterExact ==
    FilterApplied =>
        /\ \A i \in 1..Len(df_filtered) :
             /\ df_filtered[i].pickup_date >= dr[1]
             /\ df_filtered[i].pickup_date <= dr[2]
             /\ df_filtered[i].pickup_hour >= hr[1]
             /\ df_filtered[i].pickup_hour <= hr[2]
             /\ Occurrences(base, df_filtered[i]) > 0
        /\ \A i \in 1..Len(base) :
             Occurrences(df_filtered, base[i]) =
                IF InDateRange(base[i]) /\ InHourRange(base[i])
                THEN Occurrences(base, base[i]) ELSE 0

\* C1 witness: a filtered frame that kept one row and dropped a row dated
\* after d1
C1_Witness ==
    /\ FilterApplied
    /\ Len(df_filtered) = 1
    /\ \E i \in 1..Len(base) : base[i].pickup_date > dr[2]

\* C2: with hourRange = (0, 23) the filtered frame is exactly the base rows of
\* the selected dates, every day of week with a trip on those dates has share
\* 1, and the KPIs and the daily series are those of the date-restricted rows.
C2_FullHourRangeIdentity ==
    (FilterApplied /\ hr = <<0, 23>>) =>
        /\ df_filtered = DateRestricted
        /\ \A dow \in 1..7 :
             TotalOfDow(dow) > 0 => FracEq(RatioOfDow(dow), <<1, 1>>)
        /\ kpi # NoKpi => kpi = Kpis(DateRestricted, cols)
        /\ pc = "zones" => daily = Daily(DateRestricted)

\* C2 witness: a rendered pass under the full hour range whose date range
\* drops a row and keeps a trip of hour 23
C2_Witness ==
    /\ pc = "zones" /\ hr = <<0, 23>>
    /\ Len(df_filtered) < Len(base)
    /\ \E i \in 1..Len(df_filtered) : df_filtered[i].pickup_hour = 23

\* C3: the KPI averages follow the stated fallbacks: avgFare is fare/trips if
\* trips > 0 else 0, avgTipPct is tip/fare if fare > 0 else 0, avgDistance is
\* distance/trips if trips > 0 else 0, and no division by zero is raised.
C3_KpiFallbacks ==
    /\ ~(pc = "kpis" /\ outcome = "raised")
    /\ kpi # NoKpi =>
         /\ FracEq(kpi.avg_fare,
                   IF kpi.trips_total > 0
                   THEN <<kpi.fare_sum, kpi.trips_total>> ELSE Zero)
         /\ FracEq(kpi.avg_tip_pct,
                   IF kpi.fare_sum > 0 THEN <<kpi.tip_sum, kpi.fare_sum>> ELSE Zero)
         /\ FracEq(kpi.avg_miles,
                   IF kpi.trips_total > 0
                   THEN <<kpi.dist_sum, kpi.trips_total>> ELSE Zero)

\* C4 as stated: a selection that matches no rows completes the render with
\* zero KPIs, without an error or halt state.
C4_EmptySelectionRenders ==
    (FilterApplied /\ df_filtered = <<>>) =>
        /\ outcome \notin {"halted", "raised"}
        /\ "error" \notin Shown

\* C4 amended: a selection that matches no rows raises no exception, but the
\* pass ends there: guard_df shows an error and stops before any KPI, chart,
\* ranking or map; the KPI arithmetic on the empty frame would give zeros
\* without dividing by zero.
C4_EmptySelectionHalts ==
    (FilterApplied /\ df_filtered = <<>>) =>
        /\ outcome = "halted"
        /\ emitted = <<"title", "filters", "error">>
        /\ kpi = NoKpi /\ daily = Empty /\ heat = Empty /\ by_zone = <<>>
        /\ ~ENABLED Next
        /\ LET k == Kpis(df_filtered, cols)
           IN /\ k.trips_total = 0 /\ k.revenue_total = 0
              /\ k.avg_fare = Zero /\ k.avg_tip_pct = Zero /\ k.avg_miles = Zero

\* C4 witness: a non-empty base whose selection is empty
C4_Witness ==
    /\ FilterApplied /\ df_filtered = <<>>
    /\ Len(base) = 2 /\ Len(dr) = 2

\* the halts of a failed load and of an empty table: what they show, and that
\* nothing runs after them
HaltState ==
    /\ (outcome = "halted" /\ pc = "load") =>
          /\ emitted = <<"error", "info">>
          /\ Len(tried) = Len(RAW_SUBPATHS)
    /\ (outcome = "halted" /\ pc = "loaded") =>
          /\ base = <<>>
          /\ emitted = <<"error">>
    /\ (outcome = "halted" /\ pc \in {"load", "loaded"}) =>
          /\ \A i, j \in 1..Len(tried) : tried[i].path = tried[j].path => i = j
          /\ Shown \cap (RenderOutputs \cup {"title", "filters"}) = {}
          /\ kpi = NoKpi /\ daily = Empty /\ heat = Empty /\ by_zone = <<>>
          /\ ~ENABLED Next

\* the step a pass takes from a failed load or from an empty table
HaltStep ==
    /\ (pc = "load" /\ Len(tried) = Len(RAW_SUBPATHS)
          /\ \A i \in 1..Len(tried) : tried[i].result # "ok")
          => (outcome' = "halted" /\ pc' = "load")
    /\ (pc = "loaded" /\ base = <<>>) => (outcome' = "halted" /\ pc' = "loaded")

\* C5: when every candidate sub-path fails, or the loaded table is empty, the
\* next step of the pass is a halt; the halt shows an error message (and the
\* hint) and no title, filter widget, KPI, chart, ranking or map, no path has
\* been read twice, and nothing runs after the halt.
C5_MissingDataHalts == []HaltState /\ [][HaltStep]_vars

\* C5 witness: a halt on an empty table that the second sub-path returned
C5_Witness ==
    /\ outcome = "halted" /\ pc = "loaded"
    /\ Len(tried) = 2 /\ base = <<>>

\* C6: a finished pass either had every expected field and emitted the full
\* render, or emitted none of the render's outputs; a table that lacks an
\* expected field never gets any of them.
C6_NoPartialRender ==
    /\ outcome = "done" =>
          /\ OptionalCols \subseteq cols
          /\ RenderOutputs \subseteq Shown
    /\ outcome \in {"halted", "raised"} => Shown \cap RenderOutputs = {}
    /\ ~(OptionalCols \subseteq cols) => Shown \cap RenderOutputs = {}

C8_DowIsIso ==
    dowOut # NoRow =>
        /\ dowOut.pickup_dow_num \in 1..7
        /\ dowOut.pickup_dow_num = IsoDow(dowOut.pickup_date)
        /\ dowOut.pickup_date = dowIn
        /\ { c[1] : c \in DOMAIN heat } = {IsoDow(dowIn)}

\* C8 witness: 2025-06-01, a Sunday, gets 7
C8_Witness ==
    /\ dowOut # NoRow
    /\ dowIn = FirstDay
    /\ dowOut.pickup_dow_num = 7

\* C9: while load_base_with_timestamp runs and when it has returned or
\* raised, the paths read are RAW_SUBPATHS in order from the first, each read
\* failed if and only if it raised or its frame has neither pickup_datetime
\* nor a column that is renamed to it, every read before the last failed, the
\* function returns on the first read that did not fail, with pickup_datetime
\* among the columns, and it raises exactly when all three reads failed.
TsUsable(ts) == ts \cap ({"pickup_datetime"} \cup SeqRange(TsCandidates)) # {}

C9_FirstUsableSubpath ==
    pc \in {"load", "loaded"} =>
        /\ Len(tried) <= Len(RAW_SUBPATHS)
        /\ \A i \in 1..Len(tried) :
             /\ tried[i].path = RAW_SUBPATHS[i]
             /\ tried[i].result = "ok" <=> (tried[i].result # "io" /\ TsUsable(tried[i].ts))
             /\ i < Len(tried) => tried[i].result # "ok"
        /\ pc = "loaded" <=> (tried # <<>> /\ tried[Len(tried)].result = "ok")
        /\ pc = "loaded" =>
             /\ loadedFrom = Len(tried)
             /\ "pickup_datetime" \in cols
        /\ (pc = "load" /\ outcome = "running") =>
             (ENABLED LoadExhausted <=> Len(tried) = Len(RAW_SUBPATHS))
        /\ (pc = "load" /\ outcome = "halted") =>
             /\ Len(tried) = Len(RAW_SUBPATHS)
             /\ \A i \in 1..Len(tried) : tried[i].result # "ok"

\* C9 witness: the third sub-path returned a table whose timestamp column was
\* renamed, after an unreadable first and a second without timestamp
C9_Witness ==
    /\ pc = "loaded" /\ loadedFrom = 3
    /\ tried[1].result = "io" /\ tried[2].result = "no_timestamp"
    /\ tried[3].ts = {"pickup_ts"}

\* C10: in a completed render the KPI trips_total equals the sum of the daily
\* series, the sum of the heatmap cells and the sum of the per-zone trips.
C10_SameFilteredSet ==
    outcome = "done" =>
        /\ kpi.trips_total = SumFun(daily)
        /\ kpi.trips_total = SumFun(heat)
        /\ kpi.trips_total = SumSeq([i \in 1..Len(by_zone) |-> by_zone[i].trips])
====
